---- MODULE Spec2Model ----
(***************************************************************************)
(* Model of the DID service of modules/did (DIDService and its two        *)
(* circuits).  The registry s.DIDs is the state; every exported method is  *)
(* one atomic action.  Cryptography is idealised: a MiMC digest stands for *)
(* the sequence of field elements absorbed (no collisions), a Groth16      *)
(* proof stands for the circuit and public inputs it was produced for (it  *)
(* verifies for these and for nothing else), key derivation is injective.  *)
(* Field elements are integers; a negative integer v stands for the        *)
(* element |F| + v, which is what SetInt64 produces for a negative int.    *)
(***************************************************************************)
EXTENDS Integers, Sequences, FiniteSets, TLC

VARIABLES DIDs,          \* s.DIDs: map[string]DID
          last,          \* the call being answered: operation, arguments,
                         \* results; Blank between calls
          held,          \* caller side: what AuthenticateDID and
                         \* CreateAgeProof returned and the caller kept
          issuedSecret,  \* caller side: the secret CreateDID returned per id
          threads,       \* concurrent requests: where each goroutine is in its
                         \* method, and its local variables
          crashed,       \* the Go runtime stopped the process (fatal error)
          accepted,      \* verifier side: the pairs VerifyAuthentication has
                         \* answered true for
          keys,          \* the compiled circuits and Groth16 keys of the
                         \* service: authCompiled, authPk, authVk,
                         \* ageProofCompiled, ageProofPk, ageProofVk
          page           \* the login page of the web client: its React state
                         \* and the requests it has in flight

vars ==
  <<DIDs, last, held, issuedSecret, threads, crashed, accepted, keys, page>>

\* the variables of the concurrent requests, of the verifier and of the web
\* client, which the sequential calls leave alone
others == <<threads, crashed, accepted, page>>

(***************************************************************************)
(* Bounds of the model.                                                    *)
(***************************************************************************)
MaxCreds == 1       \* credentials in the registry, in Spec
MaxIssued == 2      \* credentials in the registry, in SpecIssue

(***************************************************************************)
(* Program constants.                                                      *)
(***************************************************************************)
SeedSize == 32      \* make([]byte, 32)
BlockSize == 32     \* one field element of the MiMC hash, in bytes

(***************************************************************************)
(* Values drawn and passed.  rand.Int can draw 0; an age is a Go int and   *)
(* can be negative.                                                        *)
(***************************************************************************)
SecretSpace == {0, 1}         \* rand.Int(rand.Reader, fr.Modulus()) in CreateDID
SaltSpace == {0, 1}           \* rand.Int(rand.Reader, fr.Modulus()) in Issue
AgeSpace == {-1, 0, 1, 2}     \* age / actualAge arguments
ThresholdSpace == {1, 2}      \* ageThreshold arguments

(***************************************************************************)
(* Bytes, big integers and hex.                                            *)
(***************************************************************************)
Abs(n) == IF n < 0 THEN -n ELSE n

RECURSIVE Zeros(_)
Zeros(n) == IF n <= 0 THEN <<>> ELSE <<0>> \o Zeros(n - 1)

\* big.Int.Bytes(): the big-endian bytes of |n|, no leading zero, empty for 0
RECURSIVE BigIntBytes(_)
BigIntBytes(n) ==
  IF Abs(n) = 0 THEN <<>>
  ELSE BigIntBytes(Abs(n) \div 256) \o <<Abs(n) % 256>>

\* big.Int.SetBytes / fr.Element.SetBytes: the big-endian value of a buffer
RECURSIVE SetBytes(_)
SetBytes(buf) ==
  IF Len(buf) = 0 THEN 0
  ELSE 256 * SetBytes(SubSeq(buf, 1, Len(buf) - 1)) + buf[Len(buf)]

HexDigits == <<"0", "1", "2", "3", "4", "5", "6", "7",
               "8", "9", "a", "b", "c", "d", "e", "f">>

\* fmt.Sprintf("%x", bytes)
RECURSIVE Hex(_)
Hex(buf) ==
  IF Len(buf) = 0 THEN ""
  ELSE HexDigits[(buf[1] \div 16) + 1] \o HexDigits[(buf[1] % 16) + 1]
       \o Hex(Tail(buf))

\* seed := make([]byte, 32); copy(seed[32-len(b):], b)
SeedOf(privateKey) ==
  Zeros(SeedSize - Len(BigIntBytes(privateKey))) \o BigIntBytes(privateKey)

(***************************************************************************)
(* The field modulus fr.Modulus(), big-endian, and the test "block is a    *)
(* canonical field element".                                               *)
(***************************************************************************)
ModulusBytes ==
  <<48, 100, 78, 114, 225, 49, 160, 41, 184, 80, 69, 182, 129, 129, 88, 93,
    40, 51, 232, 72, 121, 185, 112, 145, 67, 225, 245, 147, 240, 0, 0, 1>>

RECURSIVE BytesLess(_, _)
BytesLess(a, b) ==
  IF Len(a) = 0 THEN FALSE
  ELSE IF a[1] # b[1] THEN a[1] < b[1]
  ELSE BytesLess(Tail(a), Tail(b))

(***************************************************************************)
(* MiMC (gnark-crypto, fr/mimc).  The running hash is the sequence of      *)
(* field elements written so far.  Write takes whole 32-byte blocks, each  *)
(* a canonical element; a buffer shorter than one block is left-padded; an *)
(* empty buffer adds nothing; anything else fails (err: the error return,  *)
(* or the run-time panic of slicing past the buffer's capacity).           *)
(***************************************************************************)
RECURSIVE Blocks(_)
Blocks(p) ==
  IF Len(p) = 0 THEN <<>>
  ELSE <<SubSeq(p, 1, BlockSize)>> \o Blocks(SubSeq(p, BlockSize + 1, Len(p)))

MimcWrite(data, p) ==
  IF Len(p) = 0 THEN [err |-> FALSE, data |-> data]
  ELSE IF Len(p) < BlockSize
    THEN [err |-> FALSE, data |-> Append(data, SetBytes(p))]
  ELSE IF Len(p) % BlockSize # 0 THEN [err |-> TRUE, data |-> data]
  ELSE LET bs == Blocks(p) IN
    IF \E i \in 1..Len(bs) : ~BytesLess(bs[i], ModulusBytes)
      THEN [err |-> TRUE, data |-> data]
      ELSE [err |-> FALSE,
            data |-> data \o [i \in 1..Len(bs) |-> SetBytes(bs[i])]]

\* hFunc.Sum: the digest of the elements written
MimcSum(data) == [mimc |-> data]

\* the in-circuit hash (std/hash/mimc): Write takes field elements
CircuitMimc(elements) == [mimc |-> elements]

(***************************************************************************)
(* EdDSA on the twisted Edwards curve with MiMC (gnark-crypto,             *)
(* signature/eddsa).                                                       *)
(***************************************************************************)
\* cryptoeddsa.New(curve, seed).Public().Bytes(): the compressed public key
\* of the key pair expanded from the seed (one byte stands for the point)
PubKeyBytes(seed) == <<(17 * SetBytes(seed) + 163) % 256>>

\* privKey.Sign(msg, hasher): R is the nonce point, a function of key and
\* message; S answers the hash of (R, A, msg) written to the hasher
Sign(seed, msg) ==
  LET A == PubKeyBytes(seed)
      R == [key |-> A, nonce |-> msg]
      w == MimcWrite(<<>>, msg)
  IN IF w.err THEN [err |-> TRUE, sig |-> <<>>]
     ELSE [err |-> FALSE,
           sig |-> <<[R |-> R,
                      S |-> [R |-> R, A |-> A,
                             hram |-> MimcSum(w.data)]]>>]

\* eddsa.PublicKey.Assign / zero value of eddsa.PublicKey
NoPublicKey == [assigned |-> FALSE, A |-> <<>>]
PublicKeyAssign(buf) == [assigned |-> TRUE, A |-> buf]

\* eddsa.Signature.Assign(curve, signature)
SignatureAssign(sigBytes) ==
  [assigned |-> TRUE, R |-> sigBytes[1].R, S |-> sigBytes[1].S]

\* eddsa.Verify inside the circuit: [S]B = R + H(R, A, msg) A with msg one
\* field element
CircuitEddsaVerify(sig, msg, pubKey) ==
  /\ sig.S.R = sig.R
  /\ sig.S.A = pubKey.A
  /\ sig.S.hram = CircuitMimc(<<msg>>)

(***************************************************************************)
(* Witnesses and Groth16 (gnark frontend.NewWitness, groth16.Prove,        *)
(* groth16.Verify, Proof.WriteTo / ReadFrom).  An unassigned variable is   *)
(* the empty sequence, an assigned one a one-element sequence.             *)
(***************************************************************************)
\* -1 (the element |F| - 1) is above every non-negative integer of the model
FieldLeq(x, y) ==
  IF x >= 0 /\ y < 0 THEN TRUE
  ELSE IF x < 0 /\ y >= 0 THEN FALSE
  ELSE x <= y

\* frontend.NewWitness(&DIDAuthCircuit{...}, field [, PublicOnly()]): every
\* variable the witness holds must be assigned
NewAuthWitness(assignment, publicOnly) ==
  IF \/ ~assignment.PublicKey.assigned
     \/ ~assignment.Signature.assigned
     \/ (~publicOnly /\ assignment.Message = <<>>)
    THEN [err |-> TRUE, public |-> <<>>, secret |-> <<>>]
    ELSE [err |-> FALSE,
          public |-> <<[PublicKey |-> assignment.PublicKey,
                        Signature |-> assignment.Signature]>>,
          secret |-> IF publicOnly THEN <<>> ELSE assignment.Message]

\* frontend.NewWitness(&AgeProofCircuit{...}, field [, PublicOnly()])
NewAgeWitness(assignment, publicOnly) ==
  IF \/ assignment.AgeThreshold = <<>>
     \/ assignment.AgeCommitment = <<>>
     \/ (~publicOnly /\ assignment.ActualAge = <<>>)
     \/ (~publicOnly /\ assignment.AgeCommitmentSalt = <<>>)
    THEN [err |-> TRUE, public |-> <<>>, secret |-> <<>>]
    ELSE [err |-> FALSE,
          public |-> <<[AgeThreshold |-> assignment.AgeThreshold[1],
                        AgeCommitment |-> assignment.AgeCommitment[1]]>>,
          secret |-> IF publicOnly THEN <<>>
                     ELSE <<[ActualAge |-> assignment.ActualAge[1],
                             AgeCommitmentSalt |->
                               assignment.AgeCommitmentSalt[1]]>>]

\* faulty variant: the signature checked against its own key, not against
\* the circuit's PublicKey
DIDAuthCircuitAnyKey(w) ==
  CircuitEddsaVerify(w.public[1].Signature, w.secret[1],
                     [assigned |-> TRUE, A |-> w.public[1].Signature.S.A])

\* DIDAuthCircuit.Define on a full witness
DIDAuthCircuitDefine(w) ==
  CircuitEddsaVerify(w.public[1].Signature, w.secret[1], w.public[1].PublicKey)

\* faulty variant: the circuit without AssertIsLessOrEqual
AgeProofCircuitNoRange(w) ==
  CircuitMimc(<<w.secret[1].ActualAge, w.secret[1].AgeCommitmentSalt>>)
    = w.public[1].AgeCommitment

\* AgeProofCircuit.Define on a full witness
AgeProofCircuitDefine(w) ==
  /\ FieldLeq(w.public[1].AgeThreshold, w.secret[1].ActualAge)
  /\ CircuitMimc(<<w.secret[1].ActualAge, w.secret[1].AgeCommitmentSalt>>)
       = w.public[1].AgeCommitment

\* groth16.Prove(cs, pk, fullWitness) and proof.WriteTo(&buf): the prover
\* fails on a witness that does not satisfy the constraint system
Groth16Prove(circuit, w) ==
  IF (circuit = "auth" /\ DIDAuthCircuitDefine(w))
     \/ (circuit = "age" /\ AgeProofCircuitDefine(w))
    THEN [err |-> FALSE,
          bytes |-> <<[wellFormed |-> TRUE, circuit |-> circuit,
                       public |-> w.public]>>]
    ELSE [err |-> TRUE, bytes |-> <<>>]

\* bytes that are no serialized proof
Garbage == <<[wellFormed |-> FALSE, circuit |-> "", public |-> <<>>]>>

\* g16Proof.ReadFrom(buf)
ProofReadFrom(proofBytes) ==
  IF Len(proofBytes) = 0 \/ ~proofBytes[1].wellFormed
    THEN [err |-> TRUE, proof |-> Garbage[1]]
    ELSE [err |-> FALSE, proof |-> proofBytes[1]]

\* groth16.Verify(proof, vk, publicWitness): vk is named by its circuit; a
\* full witness where the public one is expected has the wrong size
Groth16Verify(proof, vk, w) ==
  /\ w.secret = <<>>
  /\ proof.circuit = vk
  /\ proof.public = w.public

(***************************************************************************)
(* The DID service: data.                                                  *)
(***************************************************************************)
\* id := fmt.Sprintf("did:example:%x", pubKeyBytes)
DIDId(pubKeyBytes) == "did:example:" \o Hex(pubKeyBytes)

\* the DID CreateDID builds for a private key
NewDID(privateKey) ==
  LET pubKeyBytes == PubKeyBytes(SeedOf(privateKey))
      id == DIDId(pubKeyBytes)
  IN [ID |-> id,
      PublicKey |-> PublicKeyAssign(pubKeyBytes),
      Document |->
        [ID |-> id,
         Controller |-> id,
         Authentication |->
           <<[ID |-> id \o "#keys-1",
              Type |-> "Ed25519VerificationKey2020",
              Controller |-> id,
              PublicKeyJwk |-> [kty |-> "OKP", crv |-> "Ed25519",
                                x |-> Hex(pubKeyBytes)]]>>,
         Credentials |-> <<>>]]

\* the zero value of DID, which a map read of a missing key returns
ZeroDID ==
  [ID |-> "",
   PublicKey |-> NoPublicKey,
   Document |-> [ID |-> "", Controller |-> "", Authentication |-> <<>>,
                 Credentials |-> <<>>]]

\* did, ok := s.DIDs[didID]
Lookup(reg, didID) == IF didID \in DOMAIN reg THEN reg[didID] ELSE ZeroDID

\* s.DIDs[id] = did
Store(reg, id, did) ==
  [k \in DOMAIN reg \cup {id} |-> IF k = id THEN did ELSE reg[k]]

\* faulty variant: the read stores what it read, the zero value for a
\* missing key (the pattern of IssueAgeCredential)
ReadDIDsStoring(reg, didID) == Store(reg, didID, Lookup(reg, didID))

\* NewDIDService: each compiled circuit and key, named by its circuit
NewDIDServiceKeys ==
  [authCompiled |-> "auth", authPk |-> "auth", authVk |-> "auth",
   ageProofCompiled |-> "age", ageProofPk |-> "age", ageProofVk |-> "age"]

\* faulty variant: a method that sets up the age keys again
ReadKeysResetting(k) ==
  [k EXCEPT !.ageProofPk = "age2", !.ageProofVk = "age2"]

\* the fields after groth16.Prove(s.authCompiled, s.authPk, ...),
\* groth16.Verify(..., s.authVk, ...) and the same for the age circuit: the
\* methods pass the fields as arguments and assign to none of them
ReadKeys(k) == k

\* the registry after "did, ok := s.DIDs[didID]" and the reads of the copy in
\* AuthenticateDID, VerifyAuthentication, CreateAgeProof and VerifyAgeProof:
\* a map read stores nothing, and none of the four assigns to s.DIDs or
\* writes through did.Document.Credentials, which the copy shares
ReadDIDs(reg, didID) == reg

\* fmt.Sprintf("%x", commitmentBytes) and fmt.Sscanf(hex, "%x", &bytes) on a
\* digest: the digits of the digest, and the digest the digits spell
SprintfHex(digest) == [hexOf |-> digest]
SscanfHex(str) == [n |-> 1, bytes |-> str.hexOf]

\* the age commitment IssueAgeCredential computes
AgeCommitmentBytes(age, salt) ==
  LET w1 == MimcWrite(<<>>, BigIntBytes(age))
      w2 == MimcWrite(w1.data, BigIntBytes(salt))
  IN MimcSum(w2.data)

\* faulty variant: the salt is kept with the claims of the credential
NewCredentialWithSalt(didID, age, salt) ==
  [ID |-> didID \o "#credential-1",
   Issuer |-> "did:example:issuer",
   Subject |-> didID,
   Claims |-> [ageCommitment |-> SprintfHex(AgeCommitmentBytes(age, salt)),
               salt |-> Hex(SeedOf(salt))],
   CommitmentID |-> SprintfHex(AgeCommitmentBytes(age, salt))]

\* the credential IssueAgeCredential builds
NewCredential(didID, age, salt) ==
  [ID |-> didID \o "#credential-1",
   Issuer |-> "did:example:issuer",
   Subject |-> didID,
   Claims |-> [ageCommitment |-> SprintfHex(AgeCommitmentBytes(age, salt))],
   CommitmentID |-> SprintfHex(AgeCommitmentBytes(age, salt))]

\* faulty variant: the loop takes the first credential whatever its id
FindCredentialAnyID(did, credentialID) ==
  IF Len(did.Document.Credentials) = 0 THEN <<>>
  ELSE <<did.Document.Credentials[1]>>

\* the loop "for i, cred := range did.Document.Credentials": the first
\* credential with the id, as a sequence of at most one element
FindCredential(did, credentialID) ==
  LET creds == did.Document.Credentials
      hits == {i \in 1..Len(creds) : creds[i].ID = credentialID}
  IN IF hits = {} THEN <<>>
     ELSE <<creds[CHOOSE i \in hits : \A j \in hits : i <= j]>>

(***************************************************************************)
(* The DID service: operations, as functions of the registry and the       *)
(* arguments.  err is "" for a nil error; work lists the library calls     *)
(* made.                                                                   *)
(***************************************************************************)
Result(err, proof, signature, valid, work) ==
  [err |-> err, proof |-> proof, signature |-> signature, valid |-> valid,
   work |-> work]

\* the errors the methods return, named by the failing step (each is the
\* prefix of the fmt.Errorf message; ErrVerify is the error groth16.Verify
\* returns, which VerifyAuthentication passes on unwrapped)
ErrNoDID == "DID does not exist"
ErrNoCredential == "credential does not exist"
ErrSign == "failed to sign challenge"
ErrWitness == "failed to create witness"
ErrProve == "failed to generate proof"
ErrReadProof == "failed to read proof"
ErrVerify == "groth16 verification failed"

\* faulty variant: the map read without the ok test
AuthenticateDIDNoLookup(reg, didID, privateKey, challenge) ==
  LET did == Lookup(reg, didID)
      signed == Sign(SeedOf(privateKey), challenge)
  IN IF signed.err
       THEN Result(ErrSign, <<>>, <<>>, FALSE, {"keygen", "sign"})
     ELSE
       LET assignment == [PublicKey |-> did.PublicKey,
                          Message |-> <<SetBytes(challenge)>>,
                          Signature |-> SignatureAssign(signed.sig)]
           fullWitness == NewAuthWitness(assignment, FALSE)
       IN IF fullWitness.err
            THEN Result(ErrWitness, <<>>, <<>>, FALSE,
                        {"keygen", "sign", "witness"})
          ELSE
            LET proof == Groth16Prove("auth", fullWitness)
            IN IF proof.err
                 THEN Result(ErrProve, <<>>, <<>>, FALSE,
                             {"keygen", "sign", "witness", "prove"})
                 ELSE Result("", proof.bytes, signed.sig, FALSE,
                             {"keygen", "sign", "witness", "prove"})

AuthenticateDID(reg, didID, privateKey, challenge) ==
  IF didID \notin DOMAIN reg
    THEN Result(ErrNoDID, <<>>, <<>>, FALSE, {})
  ELSE
    LET did == reg[didID]
        seed == SeedOf(privateKey)
        signed == Sign(seed, challenge)
    IN IF signed.err
         THEN Result(ErrSign, <<>>, <<>>, FALSE, {"keygen", "sign"})
       ELSE
         LET assignment == [PublicKey |-> did.PublicKey,
                            Message |-> <<SetBytes(challenge)>>,
                            Signature |-> SignatureAssign(signed.sig)]
             fullWitness == NewAuthWitness(assignment, FALSE)
         IN IF fullWitness.err
              THEN Result(ErrWitness, <<>>, <<>>, FALSE,
                          {"keygen", "sign", "witness"})
            ELSE
              LET proof == Groth16Prove("auth", fullWitness)
              IN IF proof.err
                   THEN Result(ErrProve, <<>>, <<>>, FALSE,
                               {"keygen", "sign", "witness", "prove"})
                   ELSE Result("", proof.bytes, signed.sig, FALSE,
                               {"keygen", "sign", "witness", "prove"})

\* faulty variant: the proof is read and never verified
VerifyAuthenticationNoVerify(reg, didID, proofBytes, signature) ==
  IF didID \notin DOMAIN reg
    THEN Result(ErrNoDID, <<>>, <<>>, FALSE, {})
  ELSE IF ProofReadFrom(proofBytes).err
    THEN Result(ErrReadProof, <<>>, <<>>, FALSE, {"read"})
  ELSE Result("", <<>>, <<>>, TRUE, {"read", "witness"})

VerifyAuthentication(reg, didID, proofBytes, signature) ==
  IF didID \notin DOMAIN reg
    THEN Result(ErrNoDID, <<>>, <<>>, FALSE, {})
  ELSE
    LET did == reg[didID]
        g16Proof == ProofReadFrom(proofBytes)
    IN IF g16Proof.err
         THEN Result(ErrReadProof, <<>>, <<>>, FALSE, {"read"})
       ELSE
         LET assignment == [PublicKey |-> did.PublicKey,
                            Message |-> <<>>,
                            Signature |-> SignatureAssign(signature)]
             publicWitness == NewAuthWitness(assignment, TRUE)
         IN IF publicWitness.err
              THEN Result(ErrWitness, <<>>, <<>>, FALSE, {"read", "witness"})
            ELSE IF ~Groth16Verify(g16Proof.proof, "auth", publicWitness)
              THEN Result(ErrVerify, <<>>, <<>>, FALSE,
                          {"read", "witness", "verify"})
            ELSE Result("", <<>>, <<>>, TRUE, {"read", "witness", "verify"})

\* faulty variant: the credential list replaced, not appended to
IssueAgeCredentialReplacing(reg, didID, age, salt) ==
  LET credential == NewCredential(didID, age, salt)
      did == Lookup(reg, didID)
      updated == [did EXCEPT !.Document.Credentials = <<credential>>]
  IN [DIDs |-> Store(reg, didID, updated),
      credential |-> <<credential>>,
      salt |-> <<salt>>,
      err |-> ""]

\* IssueAgeCredential: the registry after the call; the call has no error
\* path but the failure of the random source
IssueAgeCredential(reg, didID, age, salt) ==
  LET credential == NewCredential(didID, age, salt)
      did == Lookup(reg, didID)
      updated == [did EXCEPT !.Document.Credentials =
                                Append(did.Document.Credentials, credential)]
  IN [DIDs |-> Store(reg, didID, updated),
      credential |-> <<credential>>,
      salt |-> <<salt>>,
      err |-> ""]

CreateAgeProof(reg, didID, credentialID, ageThreshold, actualAge, salt) ==
  IF didID \notin DOMAIN reg
    THEN Result(ErrNoDID, <<>>, <<>>, FALSE, {})
  ELSE
    LET did == reg[didID]
        credential == FindCredential(did, credentialID)
    IN IF credential = <<>>
         THEN Result(ErrNoCredential, <<>>, <<>>, FALSE, {})
       ELSE
         LET parsed == SscanfHex(credential[1].CommitmentID)
             commitment == parsed.bytes
             assignment == [AgeThreshold |-> <<ageThreshold>>,
                            AgeCommitment |-> <<commitment>>,
                            ActualAge |-> <<actualAge>>,
                            AgeCommitmentSalt |-> <<salt>>]
             ageWitness == NewAgeWitness(assignment, FALSE)
         IN IF ageWitness.err
              THEN Result(ErrWitness, <<>>, <<>>, FALSE, {"witness"})
            ELSE
              LET proof == Groth16Prove("age", ageWitness)
              IN IF proof.err
                   THEN Result(ErrProve, <<>>, <<>>, FALSE,
                               {"witness", "prove"})
                   ELSE Result("", proof.bytes, <<>>, FALSE,
                               {"witness", "prove"})

VerifyAgeProof(reg, didID, credentialID, ageThreshold, proofBytes) ==
  IF didID \notin DOMAIN reg
    THEN Result(ErrNoDID, <<>>, <<>>, FALSE, {})
  ELSE
    LET did == reg[didID]
        credential == FindCredential(did, credentialID)
    IN IF credential = <<>>
         THEN Result(ErrNoCredential, <<>>, <<>>, FALSE, {})
       ELSE
         LET parsed == SscanfHex(credential[1].CommitmentID)
             commitment == parsed.bytes
             g16Proof == ProofReadFrom(proofBytes)
         IN IF g16Proof.err
              THEN Result(ErrReadProof, <<>>, <<>>, FALSE, {"read"})
            ELSE
              LET assignment == [AgeThreshold |-> <<ageThreshold>>,
                                 AgeCommitment |-> <<commitment>>,
                                 ActualAge |-> <<>>,
                                 AgeCommitmentSalt |-> <<>>]
                  \* no frontend.PublicOnly() here: a full witness is built
                  publicWitness == NewAgeWitness(assignment, FALSE)
              IN IF publicWitness.err
                   THEN Result(ErrWitness, <<>>, <<>>, FALSE,
                               {"read", "witness"})
                 ELSE IF ~Groth16Verify(g16Proof.proof, "age", publicWitness)
                   THEN Result("", <<>>, <<>>, FALSE,
                               {"read", "witness", "verify"})
                 ELSE Result("", <<>>, <<>>, TRUE,
                             {"read", "witness", "verify"})

(***************************************************************************)
(* The login page of the web client (LoginPage): its useState values.      *)
(* didAuthData is <<>> for null; pending is the request a handler awaits;  *)
(* sent is the last loginWithDID request the page submitted (<<>>: none).  *)
(***************************************************************************)
NoPair == [proof |-> "", signature |-> ""]

LoginPage ==
  [loginMethod |-> "password", didStep |-> "input", didAuthData |-> <<>>,
   filled |-> FALSE, error |-> "", loading |-> FALSE, qrData |-> FALSE,
   pending |-> "", polling |-> FALSE, qrLogin |-> FALSE, sent |-> <<>>,
   navigated |-> FALSE]

(***************************************************************************)
(* Process output.  The methods print to standard output with fmt.Printf;  *)
(* what a call prints is a sequence of lines, each a format and the value  *)
(* printed.                                                                *)
(***************************************************************************)
\* privKey.Bytes() of the EdDSA key expanded from the seed: the public key,
\* then the secret scalar and the nonce source, both halves of a hash of the
\* seed
EddsaPrivateKeyBytes(seed) ==
  [A |-> PubKeyBytes(seed), scalar |-> [h |-> seed], randSrc |-> [h |-> seed]]

Printf(format, arg) == [format |-> format, arg |-> arg]

NoArg == [text |-> ""]

\* the lines CreateDID prints
CreateDIDOutput(privateKey) ==
  LET seed == SeedOf(privateKey)
      pubKeyBytes == PubKeyBytes(seed)
  IN <<Printf("Created DID: %s", [text |-> DIDId(pubKeyBytes)]),
       Printf("CreateDID private key: %x", EddsaPrivateKeyBytes(seed)),
       Printf("gnarkPubKey public key: %x",
              [publicKey |-> PublicKeyAssign(pubKeyBytes)])>>

\* the lines AuthenticateDID prints, up to the step that fails
AuthenticateDIDOutput(reg, didID, privateKey, challenge) ==
  IF didID \notin DOMAIN reg THEN <<>>
  ELSE
    LET seed == SeedOf(privateKey)
        signed == Sign(seed, challenge)
        keyLines ==
          <<Printf("Authenticating DID: %s", [text |-> didID]),
            Printf("AuthenticateDID private key: %x",
                   EddsaPrivateKeyBytes(seed)),
            Printf("gnarkPubKey public key: %x",
                   [publicKey |-> PublicKeyAssign(PubKeyBytes(seed))])>>
        signLines ==
          <<Printf("Signature: %x len: %d", [signature |-> signed.sig]),
            Printf("Debug Info:", NoArg),
            Printf("- Public Key: %x", [publicKey |-> reg[didID].PublicKey])>>
        fullWitness ==
          NewAuthWitness([PublicKey |-> reg[didID].PublicKey,
                          Message |-> <<SetBytes(challenge)>>,
                          Signature |-> SignatureAssign(signed.sig)], FALSE)
    IN IF signed.err THEN keyLines
       ELSE IF fullWitness.err THEN keyLines \o signLines
       ELSE keyLines \o signLines
              \o <<Printf("Generating authentication proof...", NoArg)>>

(***************************************************************************)
(* Callers: the arguments they can pass.                                   *)
(***************************************************************************)
\* challenges: empty, a short one, 33 bytes, and two whole blocks whose
\* big-endian value is that of the short one
Challenges ==
  {<<>>, <<2>>, Zeros(BlockSize) \o <<1>>, Zeros(2 * BlockSize - 1) \o <<2>>}

\* an id no key derives
UnknownID == "did:example:ff"

AllIDs == {DIDId(PubKeyBytes(SeedOf(k))) : k \in SecretSpace} \cup {UnknownID}

CredentialIDs(didID) == {didID \o "#credential-1", didID \o "#credential-2"}

\* every signature a key of the model makes on a challenge of the model
AllSignatures ==
  UNION {{Sign(SeedOf(k), c).sig :
            c \in {m \in Challenges : ~Sign(SeedOf(k), m).err}} :
         k \in SecretSpace}

\* proof bytes a caller can present: a proof it was given, or garbage
ProofInputs == {h.proof : h \in held} \cup {Garbage}

RECURSIVE SumOver(_, _)
SumOver(f, S) ==
  IF S = {} THEN 0
  ELSE LET k == CHOOSE x \in S : TRUE IN f[k] + SumOver(f, S \ {k})

TotalCredentials(reg) ==
  SumOver([k \in DOMAIN reg |-> Len(reg[k].Document.Credentials)], DOMAIN reg)

\* a caller keeps the latest value returned to it
Keep(kept, x) == {x}

\* what the caller keeps of a successful call
Kept(op, didID, credentialID, ageThreshold, proof, signature) ==
  [op |-> op, didID |-> didID, credentialID |-> credentialID,
   ageThreshold |-> ageThreshold, proof |-> proof, signature |-> signature]

Blank ==
  [op |-> "", didID |-> "", credentialID |-> "", privateKey |-> 0,
   challenge |-> <<>>, ageThreshold |-> 0, age |-> 0, salt |-> 0,
   proofBytes |-> <<>>, signature |-> <<>>,
   err |-> "", outDID |-> "", outProof |-> <<>>, outSignature |-> <<>>,
   outCredential |-> <<>>, outSalt |-> <<>>, valid |-> FALSE, work |-> {},
   log |-> <<>>, privKeyBytes |-> <<>>, panicked |-> FALSE,
   response |-> <<>>, request |-> <<>>, query |-> ""]

(***************************************************************************)
(* The state machine: one action per method; Return hands the answer to    *)
(* the caller, after which the next call can be made.                      *)
(***************************************************************************)
Init ==
  /\ DIDs = [k \in {} |-> ZeroDID]
  /\ last = Blank
  /\ held = {}
  /\ issuedSecret = [k \in {} |-> 0]
  /\ threads = <<>>
  /\ crashed = FALSE
  /\ accepted = {}
  /\ keys = NewDIDServiceKeys
  /\ page = LoginPage

DoCreateDID ==
  /\ last = Blank
  /\ \E privateKey \in SecretSpace :
       LET did == NewDID(privateKey) IN
       /\ DIDs' = Store(DIDs, did.ID, did)
       /\ issuedSecret' = [k \in DOMAIN issuedSecret \cup {did.ID} |->
                             IF k = did.ID THEN privateKey ELSE issuedSecret[k]]
       /\ last' = [Blank EXCEPT !.op = "CreateDID", !.outDID = did.ID,
                                !.privateKey = privateKey,
                                !.log = CreateDIDOutput(privateKey)]
       /\ UNCHANGED <<held, others, keys>>

DoAuthenticateDID ==
  /\ last = Blank
  /\ \E didID \in AllIDs, privateKey \in SecretSpace, challenge \in Challenges :
       LET r == AuthenticateDID(DIDs, didID, privateKey, challenge) IN
       /\ last' = [Blank EXCEPT !.op = "AuthenticateDID", !.didID = didID,
                                !.privateKey = privateKey,
                                !.challenge = challenge, !.err = r.err,
                                !.outProof = r.proof,
                                !.outSignature = r.signature, !.work = r.work,
                                !.log = AuthenticateDIDOutput(DIDs, didID,
                                                              privateKey,
                                                              challenge)]
       /\ held' = IF r.err = ""
                    THEN Keep(held, Kept("AuthenticateDID", didID, "", 0,
                                         r.proof, r.signature))
                    ELSE held
       /\ DIDs' = ReadDIDs(DIDs, didID)
       /\ keys' = ReadKeys(keys)
       /\ UNCHANGED <<issuedSecret, others>>

DoVerifyAuthentication ==
  /\ last = Blank
  /\ \E didID \in AllIDs, proofBytes \in ProofInputs,
        signature \in AllSignatures :
       LET r == VerifyAuthentication(DIDs, didID, proofBytes, signature) IN
       /\ last' = [Blank EXCEPT !.op = "VerifyAuthentication", !.didID = didID,
                                !.proofBytes = proofBytes,
                                !.signature = signature, !.err = r.err,
                                !.valid = r.valid, !.work = r.work]
       /\ DIDs' = ReadDIDs(DIDs, didID)
       /\ keys' = ReadKeys(keys)
       /\ UNCHANGED <<held, issuedSecret, others>>

\* IssueAgeCredential while the registry holds fewer than n credentials
IssueAgeCredentialUpTo(n) ==
  /\ last = Blank
  /\ \E didID \in AllIDs, age \in AgeSpace, salt \in SaltSpace :
       LET r == IssueAgeCredential(DIDs, didID, age, salt) IN
       /\ TotalCredentials(DIDs) < n
       /\ DIDs' = r.DIDs
       /\ last' = [Blank EXCEPT !.op = "IssueAgeCredential", !.didID = didID,
                                !.age = age, !.err = r.err,
                                !.outCredential = r.credential,
                                !.outSalt = r.salt]
       /\ UNCHANGED <<held, issuedSecret, others, keys>>

DoCreateAgeProof ==
  /\ last = Blank
  /\ \E didID \in AllIDs, ageThreshold \in ThresholdSpace,
        actualAge \in AgeSpace, salt \in SaltSpace :
       \E credentialID \in CredentialIDs(didID) :
         LET r == CreateAgeProof(DIDs, didID, credentialID, ageThreshold,
                                 actualAge, salt) IN
         /\ last' = [Blank EXCEPT !.op = "CreateAgeProof", !.didID = didID,
                                  !.credentialID = credentialID,
                                  !.ageThreshold = ageThreshold,
                                  !.age = actualAge, !.salt = salt,
                                  !.err = r.err, !.outProof = r.proof,
                                  !.work = r.work]
         /\ held' = IF r.err = ""
                      THEN Keep(held, Kept("CreateAgeProof", didID,
                                           credentialID, ageThreshold,
                                           r.proof, <<>>))
                      ELSE held
         /\ DIDs' = ReadDIDs(DIDs, didID)
         /\ keys' = ReadKeys(keys)
         /\ UNCHANGED <<issuedSecret, others>>

DoVerifyAgeProof ==
  /\ last = Blank
  /\ \E didID \in AllIDs, ageThreshold \in ThresholdSpace,
        proofBytes \in ProofInputs :
       \E credentialID \in CredentialIDs(didID) :
         LET r == VerifyAgeProof(DIDs, didID, credentialID, ageThreshold,
                                 proofBytes) IN
         /\ last' = [Blank EXCEPT !.op = "VerifyAgeProof", !.didID = didID,
                                  !.credentialID = credentialID,
                                  !.ageThreshold = ageThreshold,
                                  !.proofBytes = proofBytes, !.err = r.err,
                                  !.valid = r.valid, !.work = r.work]
         /\ DIDs' = ReadDIDs(DIDs, didID)
         /\ keys' = ReadKeys(keys)
         /\ UNCHANGED <<held, issuedSecret, others>>

DoIssueAgeCredential == IssueAgeCredentialUpTo(MaxCreds)

Return ==
  /\ last # Blank
  /\ last' = Blank
  /\ UNCHANGED <<DIDs, held, issuedSecret, others, keys>>

Next ==
  \/ DoCreateDID
  \/ DoAuthenticateDID
  \/ DoVerifyAuthentication
  \/ DoIssueAgeCredential
  \/ DoCreateAgeProof
  \/ DoVerifyAgeProof
  \/ Return

Spec == Init /\ [][Next]_vars

(***************************************************************************)
(* Concurrent requests.  net/http serves every request on a goroutine of   *)
(* its own and the handlers call the methods of the one DIDService, which  *)
(* has no lock: the map accesses of a method are steps that interleave     *)
(* with those of the other goroutines.  A map access takes time (Begin,    *)
(* End).  A write that overlaps another access of the map is a data race:  *)
(* the runtime may stop the process ("fatal error: concurrent map writes", *)
(* "concurrent map read and map write"), the write may be lost, or it may  *)
(* take effect.                                                            *)
(***************************************************************************)
NumThreads == 2     \* goroutines serving requests at the same time
MaxCalls == 2       \* calls each goroutine makes

Threads == 1..NumThreads

\* ids and ages the concurrent requests use
ConcIDs == {DIDId(PubKeyBytes(SeedOf(k))) : k \in SecretSpace}
ConcAges == {1, 2}

\* a goroutine between two calls
Idle(calls) ==
  [pc |-> "idle", op |-> "", privateKey |-> 0, didID |-> "",
   did |-> ZeroDID, credential |-> <<>>, err |-> "", raced |-> FALSE,
   calls |-> calls]

\* the goroutine is inside a map access / inside a map write
InMap(t) == threads[t].pc \in {"loading", "storing"}
Writing(t) == threads[t].pc = "storing"

\* DIDService declares no lock and no method takes one
LockHeldBy(t) == FALSE

\* t enters the map: the accesses in progress that t's access races with (a
\* read races with the writes, a write with every access)
RacingWith(t, write) ==
  {u \in Threads \ {t} : IF write THEN InMap(u) ELSE Writing(u)}

\* the goroutines after t entered the map at pc
Entered(t, pc, write) ==
  [u \in Threads |->
     IF u = t
       THEN [threads[t] EXCEPT !.pc = pc,
                               !.raced = RacingWith(t, write) # {}]
     ELSE IF u \in RacingWith(t, write)
       THEN [threads[u] EXCEPT !.raced = TRUE]
     ELSE threads[u]]

InitConc ==
  /\ DIDs = [k \in {} |-> ZeroDID]
  /\ last = Blank
  /\ held = {}
  /\ issuedSecret = [k \in {} |-> 0]
  /\ threads = [t \in Threads |-> Idle(0)]
  /\ crashed = FALSE
  /\ accepted = {}
  /\ keys = NewDIDServiceKeys
  /\ page = LoginPage

\* CreateDID up to "s.DIDs[id] = did": the key is drawn, the DID is built
ConcCreateDID ==
  \E t \in Threads, privateKey \in SecretSpace :
    /\ ~crashed
    /\ threads[t].pc = "idle" /\ threads[t].calls < MaxCalls
    /\ threads' = [threads EXCEPT ![t] =
         [@ EXCEPT !.pc = "store", !.op = "CreateDID",
                   !.privateKey = privateKey,
                   !.didID = NewDID(privateKey).ID,
                   !.did = NewDID(privateKey),
                   !.calls = @ + 1]]
    /\ UNCHANGED <<DIDs, last, held, issuedSecret, crashed, accepted,
                 keys, page>>

\* IssueAgeCredential up to "did := s.DIDs[didID]": the salt is drawn, the
\* credential is built
ConcIssueAgeCredential ==
  \E t \in Threads, didID \in ConcIDs, age \in ConcAges, salt \in {1} :
    /\ ~crashed
    /\ threads[t].pc = "idle" /\ threads[t].calls < MaxCalls
    /\ threads' = [threads EXCEPT ![t] =
         [@ EXCEPT !.pc = "load", !.op = "IssueAgeCredential",
                   !.didID = didID,
                   !.credential = <<NewCredential(didID, age, salt)>>,
                   !.calls = @ + 1]]
    /\ UNCHANGED <<DIDs, last, held, issuedSecret, crashed, accepted,
                 keys, page>>

\* AuthenticateDID up to "did, ok := s.DIDs[didID]"
ConcAuthenticateDID ==
  \E t \in Threads, didID \in ConcIDs :
    /\ ~crashed
    /\ threads[t].pc = "idle" /\ threads[t].calls < MaxCalls
    /\ threads' = [threads EXCEPT ![t] =
         [@ EXCEPT !.pc = "load", !.op = "AuthenticateDID",
                   !.didID = didID, !.calls = @ + 1]]
    /\ UNCHANGED <<DIDs, last, held, issuedSecret, crashed, accepted,
                 keys, page>>

\* the map read begins
MapLoadBegin ==
  \E t \in Threads :
    /\ ~crashed
    /\ threads[t].pc = "load"
    /\ threads' = Entered(t, "loading", FALSE)
    /\ UNCHANGED <<DIDs, last, held, issuedSecret, crashed, accepted,
                 keys, page>>

\* the map read ends: IssueAgeCredential appends to the copy, whatever it
\* read; AuthenticateDID returns for a missing key and goes on to sign and
\* prove otherwise
MapLoadEnd ==
  \E t \in Threads :
    LET me == threads[t]
        did == Lookup(DIDs, me.didID)
        updated == [did EXCEPT !.Document.Credentials =
                                  did.Document.Credentials \o me.credential]
    IN
    /\ ~crashed
    /\ me.pc = "loading"
    /\ threads' = [threads EXCEPT ![t] =
         IF me.op = "IssueAgeCredential"
           THEN [me EXCEPT !.pc = "store", !.raced = FALSE, !.did = updated]
         ELSE IF me.didID \in DOMAIN DIDs
           THEN [me EXCEPT !.pc = "prove", !.raced = FALSE, !.did = did]
         ELSE [me EXCEPT !.pc = "done", !.raced = FALSE, !.err = ErrNoDID]]
    /\ UNCHANGED <<DIDs, last, held, issuedSecret, crashed, accepted,
                 keys, page>>

\* AuthenticateDID signs and proves on its copy, outside the map
Prove ==
  \E t \in Threads :
    /\ ~crashed
    /\ threads[t].pc = "prove"
    /\ threads' = [threads EXCEPT ![t] = [@ EXCEPT !.pc = "done"]]
    /\ UNCHANGED <<DIDs, last, held, issuedSecret, crashed, accepted,
                 keys, page>>

\* the map write "s.DIDs[id] = did" begins
MapStoreBegin ==
  \E t \in Threads :
    /\ ~crashed
    /\ threads[t].pc = "store"
    /\ threads' = Entered(t, "storing", TRUE)
    /\ UNCHANGED <<DIDs, last, held, issuedSecret, crashed, accepted,
                 keys, page>>

\* the map write ends and the method returns
MapStoreEnd ==
  \E t \in Threads :
    /\ ~crashed
    /\ threads[t].pc = "storing"
    /\ threads' = [threads EXCEPT ![t] =
                     [@ EXCEPT !.pc = "done", !.raced = FALSE]]
    /\ DIDs' = Store(DIDs, threads[t].didID, threads[t].did)
    /\ UNCHANGED <<last, held, issuedSecret, crashed, accepted,
                 keys, page>>

\* a write that raced is lost
MapStoreLost ==
  \E t \in Threads :
    /\ ~crashed
    /\ threads[t].pc = "storing" /\ threads[t].raced
    /\ threads' = [threads EXCEPT ![t] =
                     [@ EXCEPT !.pc = "done", !.raced = FALSE]]
    /\ UNCHANGED <<DIDs, last, held, issuedSecret, crashed, accepted,
                 keys, page>>

\* the runtime detects the race and stops the process
FatalError ==
  \E t \in Threads :
    /\ ~crashed
    /\ InMap(t) /\ threads[t].raced
    /\ crashed' = TRUE
    /\ UNCHANGED <<DIDs, last, held, issuedSecret, threads, accepted,
                 keys, page>>

\* the answer is written and the goroutine serves the next request
ConcReturn ==
  \E t \in Threads :
    /\ ~crashed
    /\ threads[t].pc = "done"
    /\ threads' = [threads EXCEPT ![t] = Idle(@.calls)]
    /\ UNCHANGED <<DIDs, last, held, issuedSecret, crashed, accepted,
                 keys, page>>

NextConc ==
  \/ ConcCreateDID
  \/ ConcIssueAgeCredential
  \/ ConcAuthenticateDID
  \/ MapLoadBegin
  \/ MapLoadEnd
  \/ Prove
  \/ MapStoreBegin
  \/ MapStoreEnd
  \/ MapStoreLost
  \/ FatalError
  \/ ConcReturn

SpecConc == InitConc /\ [][NextConc]_vars

(***************************************************************************)
(* Vocabulary of the properties.                                           *)
(***************************************************************************)
\* the caller kept this pair or proof from a successful call of op for didID
HeldFrom(op, didID, proof) ==
  {h \in held : h.op = op /\ h.didID = didID /\ h.proof = proof}

\* the credentials of a registered DID that carry the id
CredentialsWithID(reg, didID, credentialID) ==
  {i \in 1..Len(reg[didID].Document.Credentials) :
     reg[didID].Document.Credentials[i].ID = credentialID}

\* C1: for a DID returned by CreateDID, AuthenticateDID with the returned
\* secret succeeds on every challenge and returns a proof and a signature,
\* and VerifyAuthentication on a pair it returned is true with no error.
C1_RoundTrip ==
  /\ (last.op = "AuthenticateDID" /\ last.didID \in DOMAIN issuedSecret
      /\ last.privateKey = issuedSecret[last.didID])
       => (last.err = "" /\ last.outProof # <<>> /\ last.outSignature # <<>>)
  /\ (last.op = "VerifyAuthentication"
      /\ \E h \in HeldFrom("AuthenticateDID", last.didID, last.proofBytes) :
           h.signature = last.signature)
       => (last.valid /\ last.err = "")

\* C2: VerifyAuthentication for a registered DID with a proof AuthenticateDID
\* returned for it and a well-formed signature other than the one returned
\* with that proof answers false with a nil error.
C2_FailedCheckIsFalseNotError ==
  (last.op = "VerifyAuthentication"
   /\ \E h \in HeldFrom("AuthenticateDID", last.didID, last.proofBytes) :
        h.signature # last.signature)
    => (~last.valid /\ last.err = "")

\* C3: VerifyAuthentication(didId, proof, signature) is true only for a pair
\* that a successful AuthenticateDID call for the same didId returned.
C3_AuthSoundness ==
  (last.op = "VerifyAuthentication" /\ last.valid)
    => \E h \in HeldFrom("AuthenticateDID", last.didID, last.proofBytes) :
         h.signature = last.signature

\* C3 witness: a verification that answered true.
C3_Witness ==
  last.op = "VerifyAuthentication" /\ last.valid /\ last.err = ""

\* C4: CreateDID that derives an id already in the registry fails and leaves
\* the registry as it was.
C4_DuplicateIdRejected ==
  [][(last'.op = "CreateDID" /\ last'.outDID \in DOMAIN DIDs)
       => (last'.err # "" /\ DIDs' = DIDs)]_vars

\* C5: IssueAgeCredential for an id that is not in the registry returns the
\* DID-not-found error, no credential and no salt, and leaves the registry
\* as it was.
C5_IssueUnknownDID ==
  [][(last'.op = "IssueAgeCredential" /\ last'.didID \notin DOMAIN DIDs)
       => (last'.err = ErrNoDID /\ last'.outCredential = <<>>
           /\ last'.outSalt = <<>> /\ DIDs' = DIDs)]_vars

\* C6: VerifyAgeProof on the proof CreateAgeProof returned, for the same DID,
\* credential and threshold, is true with no error (CreateAgeProof returns a
\* proof only when the threshold is at most the age and age and salt open
\* the commitment); and VerifyAgeProof is true for no other proof.
C6_AgeProofRoundTrip ==
  /\ (last.op = "VerifyAgeProof" /\ last.didID \in DOMAIN DIDs
      /\ CredentialsWithID(DIDs, last.didID, last.credentialID) # {}
      /\ \E h \in HeldFrom("CreateAgeProof", last.didID, last.proofBytes) :
           /\ h.credentialID = last.credentialID
           /\ h.ageThreshold = last.ageThreshold)
       => (last.valid /\ last.err = "")
  /\ (last.op = "VerifyAgeProof" /\ last.valid)
       => \E h \in HeldFrom("CreateAgeProof", last.didID, last.proofBytes) :
            /\ h.credentialID = last.credentialID
            /\ h.ageThreshold = last.ageThreshold

\* C7: VerifyAgeProof with a proof created for another threshold answers
\* false with a nil error, and VerifyAgeProof returns an error only for an
\* unknown DID, an unknown credential or proof bytes that do not parse.
C7_WrongThresholdIsFalse ==
  /\ (last.op = "VerifyAgeProof" /\ last.didID \in DOMAIN DIDs
      /\ CredentialsWithID(DIDs, last.didID, last.credentialID) # {}
      /\ \E h \in HeldFrom("CreateAgeProof", last.didID, last.proofBytes) :
           /\ h.credentialID = last.credentialID
           /\ h.ageThreshold # last.ageThreshold)
       => (~last.valid /\ last.err = "")
  /\ (last.op = "VerifyAgeProof" /\ last.err # "")
       => last.err \in {ErrNoDID, ErrNoCredential, ErrReadProof}

\* C8: CreateAgeProof on a stored credential with threshold > actualAge, or
\* with an age and salt whose commitment is not the stored one, returns the
\* prover's error and no proof, and leaves the registry as it was.
C8_UnsatisfiableAgeWitness ==
  [][(/\ last'.op = "CreateAgeProof"
      /\ last'.didID \in DOMAIN DIDs
      /\ \E i \in CredentialsWithID(DIDs, last'.didID, last'.credentialID) :
           /\ \A j \in CredentialsWithID(DIDs, last'.didID,
                                         last'.credentialID) : i <= j
           /\ \/ last'.ageThreshold > last'.age
              \/ DIDs[last'.didID].Document.Credentials[i].CommitmentID
                   # SprintfHex(AgeCommitmentBytes(last'.age, last'.salt)))
       => (last'.err = ErrProve /\ last'.outProof = <<>> /\ DIDs' = DIDs)]_vars

\* C8 witness: CreateAgeProof was refused for a threshold above the age on a
\* credential whose commitment the age and salt passed do open.
C8_Witness ==
  /\ last.op = "CreateAgeProof" /\ last.err = ErrProve
  /\ last.didID \in DOMAIN DIDs
  /\ last.ageThreshold > last.age
  /\ \E i \in CredentialsWithID(DIDs, last.didID, last.credentialID) :
       DIDs[last.didID].Document.Credentials[i].CommitmentID
         = SprintfHex(AgeCommitmentBytes(last.age, last.salt))

\* C9: AuthenticateDID, VerifyAuthentication, CreateAgeProof and
\* VerifyAgeProof called with an id that is not in the registry return the
\* DID-not-found error, no proof, no signature and no true result, call no
\* library function, and leave the registry as it was.
C9_UnknownDIDNotFound ==
  [][(/\ last'.op \in {"AuthenticateDID", "VerifyAuthentication",
                       "CreateAgeProof", "VerifyAgeProof"}
      /\ last'.didID \notin DOMAIN DIDs)
       => (/\ last'.err = ErrNoDID
           /\ last'.outProof = <<>> /\ last'.outSignature = <<>>
           /\ ~last'.valid
           /\ last'.work = {}
           /\ DIDs' = DIDs)]_vars

\* C9 witness: a proof the caller holds was presented to VerifyAuthentication
\* under an id that is not registered, while another id is.
C9_Witness ==
  /\ last.op = "VerifyAuthentication" /\ last.didID \notin DOMAIN DIDs
  /\ DOMAIN DIDs # {} /\ last.proofBytes # Garbage
  /\ last.err = ErrNoDID

\* C10: CreateAgeProof and VerifyAgeProof called for a registered DID with
\* a credential id that no credential of its document carries return the
\* credential-not-found error, no proof and no boolean answer, and leave the
\* registry as it was.
C10_UnknownCredentialNotFound ==
  [][(/\ last'.op \in {"CreateAgeProof", "VerifyAgeProof"}
      /\ last'.didID \in DOMAIN DIDs
      /\ CredentialsWithID(DIDs, last'.didID, last'.credentialID) = {})
       => (/\ last'.err = ErrNoCredential
           /\ last'.outProof = <<>> /\ ~last'.valid
           /\ DIDs' = DIDs)]_vars

\* C10 witness: a DID with a stored credential was asked for a proof under a
\* credential id it does not have.
C10_Witness ==
  /\ last.op = "CreateAgeProof" /\ last.didID \in DOMAIN DIDs
  /\ Len(DIDs[last.didID].Document.Credentials) > 0
  /\ CredentialsWithID(DIDs, last.didID, last.credentialID) = {}
  /\ last.err = ErrNoCredential

\* C11: AuthenticateDID, VerifyAuthentication, CreateAgeProof and
\* VerifyAgeProof leave the registry exactly as it was, whether the call
\* succeeds or fails.
C11_ReadOnlyMethods ==
  [][(last'.op \in {"AuthenticateDID", "VerifyAuthentication",
                    "CreateAgeProof", "VerifyAgeProof"})
       => DIDs' = DIDs]_vars

\* C11 witness: CreateAgeProof answered with a proof for a stored credential.
C11_Witness ==
  /\ last.op = "CreateAgeProof" /\ last.err = "" /\ last.outProof # <<>>
  /\ last.didID \in DOMAIN DIDs
  /\ Len(DIDs[last.didID].Document.Credentials) > 0

\* C12: no step removes an id from the registry or changes the public key
\* stored under it, and no step removes or replaces a credential of a
\* document: the credentials before the step are a prefix of those after.
C12_NothingRemoved ==
  [][\A k \in DOMAIN DIDs :
       /\ k \in DOMAIN DIDs'
       /\ DIDs'[k].PublicKey = DIDs[k].PublicKey
       /\ Len(DIDs'[k].Document.Credentials)
            >= Len(DIDs[k].Document.Credentials)
       /\ SubSeq(DIDs'[k].Document.Credentials, 1,
                 Len(DIDs[k].Document.Credentials))
            = DIDs[k].Document.Credentials]_vars

\* C13: every registry entry stored under key k has ID, Document.ID and
\* Document.Controller equal to k, k is "did:example:" followed by the hex of
\* the entry's public key bytes, and the first element of
\* Document.Authentication carries that public key.
C13_EntriesWellFormed ==
  \A k \in DOMAIN DIDs :
    /\ DIDs[k].ID = k
    /\ DIDs[k].Document.ID = k
    /\ DIDs[k].Document.Controller = k
    /\ DIDs[k].PublicKey.assigned
    /\ k = DIDId(DIDs[k].PublicKey.A)
    /\ Len(DIDs[k].Document.Authentication) >= 1
    /\ DIDs[k].Document.Authentication[1].Controller = k
    /\ DIDs[k].Document.Authentication[1].PublicKeyJwk.x
         = Hex(DIDs[k].PublicKey.A)

\* C14: two CreateDID calls running at the same time, with different keys
\* drawn, do not stop the process, and once both have returned they have
\* returned distinct ids and the registry holds an entry under each.
C14_ConcurrentCreateDID ==
  \A t, u \in Threads :
    (/\ t # u
     /\ threads[t].op = "CreateDID" /\ threads[u].op = "CreateDID"
     /\ threads[t].privateKey # threads[u].privateKey)
      => /\ ~crashed
         /\ (threads[t].pc = "done" /\ threads[u].pc = "done")
              => /\ threads[t].didID # threads[u].didID
                 /\ threads[t].didID \in DOMAIN DIDs
                 /\ threads[u].didID \in DOMAIN DIDs

\* C15: a goroutine is in the map only while it holds the lock, no write of
\* the map overlaps another read or write of it, and no goroutine holds the
\* lock while it proves.
C15_MapGuardedByLock ==
  /\ \A t \in Threads : InMap(t) => LockHeldBy(t)
  /\ \A t, u \in Threads : (t # u /\ Writing(t)) => ~InMap(u)
  /\ \A t \in Threads : threads[t].pc = "prove" => ~LockHeldBy(t)

\* the byte strings and the strings the registry holds
StoredBytes(reg) == {reg[k].PublicKey.A : k \in DOMAIN reg}

StoredStrings(reg) ==
  UNION {
    {reg[k].ID, reg[k].Document.ID, reg[k].Document.Controller}
    \cup UNION {{a.ID, a.Type, a.Controller}
                \cup {a.PublicKeyJwk[f] : f \in DOMAIN a.PublicKeyJwk} :
                a \in {reg[k].Document.Authentication[i] :
                         i \in 1..Len(reg[k].Document.Authentication)}}
    \cup UNION {{c.ID, c.Issuer, c.Subject} :
                c \in {reg[k].Document.Credentials[i] :
                         i \in 1..Len(reg[k].Document.Credentials)}} :
    k \in DOMAIN reg}

\* the credentials the registry holds
StoredCredentials(reg) ==
  UNION {{reg[k].Document.Credentials[i] :
            i \in 1..Len(reg[k].Document.Credentials)} : k \in DOMAIN reg}

\* the 32-byte encoding of every scalar CreateDID or IssueAgeCredential can
\* draw, as bytes and as hex, and every commitment IssueAgeCredential can
\* compute
ScalarBytes == [x \in SecretSpace \cup SaltSpace |-> SeedOf(x)]
ScalarHex == [x \in SecretSpace \cup SaltSpace |-> Hex(SeedOf(x))]
Commitments ==
  {SprintfHex(AgeCommitmentBytes(age, salt)) :
     age \in AgeSpace, salt \in SaltSpace}

\* C16: the registry holds no secret CreateDID returned and no salt, neither
\* as bytes nor as hex: an entry has the fields ID, PublicKey and Document,
\* a credential has no field for the salt and holds the commitment as the
\* hex of a digest, and no byte string or string stored is the 32-byte
\* encoding of a returned secret or of a salt.
C16_NoSecretStored ==
  /\ \A k \in DOMAIN DIDs :
       /\ DOMAIN DIDs[k] = {"ID", "PublicKey", "Document"}
       /\ DOMAIN DIDs[k].Document
            = {"ID", "Controller", "Authentication", "Credentials"}
       /\ \A i \in 1..Len(DIDs[k].Document.Authentication) :
            DOMAIN DIDs[k].Document.Authentication[i].PublicKeyJwk
              = {"kty", "crv", "x"}
  /\ \A c \in StoredCredentials(DIDs) :
       /\ DOMAIN c = {"ID", "Issuer", "Subject", "Claims", "CommitmentID"}
       /\ DOMAIN c.Claims = {"ageCommitment"}
       /\ c.CommitmentID \in Commitments
       /\ c.Claims.ageCommitment = c.CommitmentID
  /\ \A x \in {issuedSecret[id] : id \in DOMAIN issuedSecret} \cup SaltSpace :
       /\ ScalarBytes[x] \notin StoredBytes(DIDs)
       /\ ScalarHex[x] \notin StoredStrings(DIDs)

\* C16 witness: a DID created by CreateDID holds a credential whose salt
\* IssueAgeCredential has just returned.
C16_Witness ==
  /\ last.op = "IssueAgeCredential" /\ last.outSalt # <<>>
  /\ last.didID \in DOMAIN issuedSecret
  /\ last.didID \in DOMAIN DIDs
  /\ Len(DIDs[last.didID].Document.Credentials) > 0

(***************************************************************************)
(* Inputs of any length.  The /api/did/authenticate handler parses the     *)
(* private key from a hex string of any length and the verification        *)
(* handlers decode the signature from a hex string of any length; the key  *)
(* is given here by its big-endian bytes (privateKey.Bytes()), the         *)
(* signature by its bytes.  A call either returns or panics.               *)
(***************************************************************************)
\* privateKey.Bytes() of the keys a caller can pass: the keys CreateDID
\* draws, and two keys of 33 bytes
PrivateKeyBytes ==
  {BigIntBytes(k) : k \in SecretSpace}
    \cup {<<1>> \o Zeros(SeedSize), <<255>> \o Zeros(SeedSize - 1) \o <<7>>}

\* signature bytes a caller can pass: a signature of the model, or a buffer
\* that is not the length of a signature
WrongLengthSignature == <<>>
SignatureInputs == AllSignatures \cup {WrongLengthSignature}

\* seed[32-len(privKeyBytes):] with len(privKeyBytes) > 32 is a slice with a
\* negative bound: a run-time panic
SeedCopyPanics(privKeyBytes) == SeedSize - Len(privKeyBytes) < 0

\* eddsa.Signature.Assign has no error result: it panics on a buffer it
\* cannot parse
SignatureAssignPanics(sigBytes) == Len(sigBytes) # 1

Panic(log) ==
  [panicked |-> TRUE, r |-> Result("", <<>>, <<>>, FALSE, {}), log |-> log]
Returned(r, log) == [panicked |-> FALSE, r |-> r, log |-> log]

\* AuthenticateDID, the key given by its bytes
AuthenticateDIDCall(reg, didID, privKeyBytes, challenge) ==
  IF didID \notin DOMAIN reg
    THEN Returned(Result(ErrNoDID, <<>>, <<>>, FALSE, {}), <<>>)
  ELSE IF SeedCopyPanics(privKeyBytes)
    THEN Panic(<<Printf("Authenticating DID: %s", [text |-> didID])>>)
  ELSE Returned(AuthenticateDID(reg, didID, SetBytes(privKeyBytes),
                                challenge),
                AuthenticateDIDOutput(reg, didID, SetBytes(privKeyBytes),
                                      challenge))

\* VerifyAuthentication, the signature of any length
VerifyAuthenticationCall(reg, didID, proofBytes, signature) ==
  IF didID \notin DOMAIN reg
    THEN Returned(Result(ErrNoDID, <<>>, <<>>, FALSE, {}), <<>>)
  ELSE IF ProofReadFrom(proofBytes).err
    THEN Returned(Result(ErrReadProof, <<>>, <<>>, FALSE, {"read"}), <<>>)
  ELSE IF SignatureAssignPanics(signature) THEN Panic(<<>>)
  ELSE Returned(VerifyAuthentication(reg, didID, proofBytes, signature),
                <<>>)

AuthenticateRequest ==
  /\ last = Blank
  /\ \E didID \in AllIDs, privKeyBytes \in PrivateKeyBytes,
        challenge \in Challenges :
       LET c == AuthenticateDIDCall(DIDs, didID, privKeyBytes, challenge) IN
       /\ last' = [Blank EXCEPT !.op = "AuthenticateDID", !.didID = didID,
                                !.privKeyBytes = privKeyBytes,
                                !.challenge = challenge,
                                !.panicked = c.panicked, !.err = c.r.err,
                                !.outProof = c.r.proof,
                                !.outSignature = c.r.signature,
                                !.work = c.r.work, !.log = c.log]
       /\ held' = IF ~c.panicked /\ c.r.err = ""
                    THEN Keep(held, Kept("AuthenticateDID", didID, "", 0,
                                         c.r.proof, c.r.signature))
                    ELSE held
       /\ DIDs' = ReadDIDs(DIDs, didID)
       /\ keys' = ReadKeys(keys)
       /\ UNCHANGED <<issuedSecret, others>>

VerifyRequest ==
  /\ last = Blank
  /\ \E didID \in AllIDs, proofBytes \in ProofInputs,
        signature \in SignatureInputs :
       LET c == VerifyAuthenticationCall(DIDs, didID, proofBytes, signature) IN
       /\ last' = [Blank EXCEPT !.op = "VerifyAuthentication", !.didID = didID,
                                !.proofBytes = proofBytes,
                                !.signature = signature,
                                !.panicked = c.panicked, !.err = c.r.err,
                                !.valid = c.r.valid, !.work = c.r.work]
       /\ DIDs' = ReadDIDs(DIDs, didID)
       /\ keys' = ReadKeys(keys)
       /\ UNCHANGED <<held, issuedSecret, others>>

NextInput ==
  \/ DoCreateDID
  \/ AuthenticateRequest
  \/ VerifyRequest
  \/ Return

SpecInput == Init /\ [][NextInput]_vars

\* C17: the core never panics on runtime inputs: for a registered DID,
\* AuthenticateDID with a secret whose big-endian encoding is longer than 32
\* bytes, and VerifyAuthentication with signature bytes of the wrong length,
\* return an error instead of panicking
C17_NoPanicOnLongInput ==
  /\ (/\ last.op = "AuthenticateDID"
      /\ last.didID \in DOMAIN DIDs
      /\ Len(last.privKeyBytes) > SeedSize)
       => (~last.panicked /\ last.err # "")
  /\ (/\ last.op = "VerifyAuthentication"
      /\ last.didID \in DOMAIN DIDs
      /\ Len(last.signature) # 1)
       => (~last.panicked /\ last.err # "")

(***************************************************************************)
(* Challenge and response.  A login round has a challenge (the client      *)
(* draws it); the prover answers with AuthenticateDID and the answer is    *)
(* checked by POST /api/did/verify, whose request carries the DID, the     *)
(* proof and the signature and no challenge.  accepted is the history of   *)
(* the answers verification has accepted; the service keeps no such        *)
(* record.                                                                 *)
(***************************************************************************)
Answer(didID, proofBytes, signature) ==
  [didID |-> didID, proof |-> proofBytes, signature |-> signature]

\* the /api/did/verify handler, called in a round whose challenge is
\* challenge
VerifyInRound ==
  /\ last = Blank
  /\ \E challenge \in Challenges, didID \in AllIDs, proofBytes \in ProofInputs,
        signature \in AllSignatures :
       LET r == VerifyAuthentication(DIDs, didID, proofBytes, signature) IN
       /\ last' = [Blank EXCEPT !.op = "VerifyAuthentication", !.didID = didID,
                                !.challenge = challenge,
                                !.proofBytes = proofBytes,
                                !.signature = signature, !.err = r.err,
                                !.valid = r.valid, !.work = r.work]
       /\ accepted' = IF r.valid
                        THEN accepted
                               \cup {Answer(didID, proofBytes, signature)}
                        ELSE accepted
       /\ DIDs' = ReadDIDs(DIDs, didID)
       /\ keys' = ReadKeys(keys)
       /\ UNCHANGED <<held, issuedSecret, threads, crashed, page>>

NextRound ==
  \/ DoCreateDID
  \/ DoAuthenticateDID
  \/ VerifyInRound
  \/ Return

SpecRound == Init /\ [][NextRound]_vars

\* the signature is one a key makes on the challenge
SignedOn(signature, challenge) ==
  \E k \in SecretSpace :
    /\ ~Sign(SeedOf(k), challenge).err
    /\ Sign(SeedOf(k), challenge).sig = signature

\* C18: challenge-response authentication prevents replay: an answer made by
\* AuthenticateDID for challenge c is accepted only in a round whose
\* challenge is c, and an answer accepted once is not accepted again
C18_NoReplay ==
  [][(last'.op = "VerifyAuthentication" /\ last'.valid)
       => /\ SignedOn(last'.signature, last'.challenge)
          /\ Answer(last'.didID, last'.proofBytes, last'.signature)
               \notin accepted]_vars

\* the values that give away a secret scalar or a salt: its 32-byte
\* encoding, raw or in hex, and the EdDSA private key expanded from it
SecretValues ==
  UNION {{[bytes |-> ScalarBytes[x]], [text |-> ScalarHex[x]],
          EddsaPrivateKeyBytes(ScalarBytes[x])} :
         x \in SecretSpace \cup SaltSpace}

\* C19: no operation of the DID service writes a DID's secret key material
\* or a credential salt to the process output
C19_NoSecretPrinted ==
  \A i \in 1..Len(last.log) : last.log[i].arg \notin SecretValues

\* C20: the secret scalar drawn and returned by CreateDID is in [1, |F|): it
\* is never 0 and never greater than or equal to the field modulus
C20_SecretInRange ==
  last.op = "CreateDID"
    => /\ last.privateKey >= 1
       /\ BytesLess(SeedOf(last.privateKey), ModulusBytes)

(***************************************************************************)
(* The HTTP API (backend/main.go).  POST /api/did/create parses the date   *)
(* of birth, calls CreateDID and IssueAgeCredential and answers with the   *)
(* DID CreateDID returned and the padded hex of the secret.  CreateDID     *)
(* returns a pointer to its local copy of the DID, not to the map entry;   *)
(* IssueAgeCredential appends to a copy read from the map and stores that. *)
(***************************************************************************)
\* strconv.Atoi(req.DOB): the strings a client can send, by what they parse
\* to
DOBInputs ==
  {[ok |-> TRUE, dob |-> age] : age \in AgeSpace}
    \cup {[ok |-> FALSE, dob |-> 0]}

ErrDOB == "Invalid DOB format"

\* hex.EncodeToString(seed) of the padded secret
PrivateKeyHex(privateKey) == Hex(SeedOf(privateKey))

\* CreateDIDResponse{DID: newDID, PrivateKey: hex.EncodeToString(seed)}
CreateDIDResponse(newDID, privateKey) ==
  [DID |-> newDID, PrivateKey |-> PrivateKeyHex(privateKey)]

\* the handler, the form values drawn from reqs and the secret CreateDID
\* draws from secrets
CreateRequestWith(reqs, secrets) ==
  /\ last = Blank
  /\ \E req \in reqs, privateKey \in secrets, salt \in SaltSpace :
       IF ~req.ok
         THEN /\ last' = [Blank EXCEPT !.op = "POST /api/did/create",
                                       !.err = ErrDOB]
              /\ UNCHANGED <<DIDs, held, issuedSecret, others, keys>>
         ELSE
           LET newDID == NewDID(privateKey)
               created == Store(DIDs, newDID.ID, newDID)
               issued == IssueAgeCredential(created, newDID.ID, req.dob,
                                            salt)
           IN /\ DIDs' = issued.DIDs
              /\ issuedSecret' =
                   [k \in DOMAIN issuedSecret \cup {newDID.ID} |->
                      IF k = newDID.ID THEN privateKey ELSE issuedSecret[k]]
              /\ last' = [Blank EXCEPT
                            !.op = "POST /api/did/create",
                            !.age = req.dob,
                            !.privateKey = privateKey,
                            !.outDID = newDID.ID,
                            !.outCredential = issued.credential,
                            !.log = CreateDIDOutput(privateKey),
                            !.response =
                              <<CreateDIDResponse(newDID, privateKey)>>]
              /\ UNCHANGED <<held, others, keys>>

CreateRequest == CreateRequestWith(DOBInputs, SecretSpace)

NextAPI ==
  \/ CreateRequest
  \/ Return

SpecAPI == Init /\ [][NextAPI]_vars

\* C21: the DID in the response of POST /api/did/create is the registered
\* DID with the age credential the handler issued for it: its credential
\* list holds that credential, and it equals the registry entry
C21_ResponseIsRegisteredDID ==
  (last.op = "POST /api/did/create" /\ last.err = "")
    => /\ last.response[1].DID.ID \in DOMAIN DIDs
       /\ last.response[1].DID = DIDs[last.response[1].DID.ID]
       /\ \E i \in 1..Len(last.response[1].DID.Document.Credentials) :
            last.response[1].DID.Document.Credentials[i]
              = last.outCredential[1]

\* C22: the compiled circuits and keys set by NewDIDService are immutable:
\* the registry is empty right after construction, and after any sequence of
\* operations the six fields are the ones construction set
C22_KeysImmutable ==
  /\ DOMAIN DIDs = {}
  /\ [][keys' = keys]_vars
  /\ [](keys = NewDIDServiceKeys)

\* C22 witness: the authentication keys have been used (a proof was made
\* with authPk and verified with authVk) and the fields are unchanged
C22_Witness ==
  /\ last.op = "VerifyAuthentication" /\ "verify" \in last.work
  /\ last.valid
  /\ keys = NewDIDServiceKeys

(***************************************************************************)
(* Repeated issuance: CreateDID and IssueAgeCredential only, so that one   *)
(* document can come to hold several credentials.                          *)
(***************************************************************************)
IssueRepeated == IssueAgeCredentialUpTo(MaxIssued)

NextIssue ==
  \/ DoCreateDID
  \/ IssueRepeated
  \/ Return

SpecIssue == Init /\ [][NextIssue]_vars

\* C23: a successful IssueAgeCredential(didId, age) on a registered DID
\* appends exactly one credential to that DID's document, with Subject =
\* didId and CommitmentID = Claims.ageCommitment = the hex of the commitment
\* to (age, returned salt); the DID's id, public key, authentication entries
\* and earlier credentials, and every other entry, are unchanged
C23_IssueAppendsOne ==
  [][(/\ last'.op = "IssueAgeCredential" /\ last'.err = ""
      /\ last'.didID \in DOMAIN DIDs)
       => LET d == last'.didID
              c == last'.outCredential[1]
          IN /\ DOMAIN DIDs' = DOMAIN DIDs
             /\ DIDs'[d].Document.Credentials
                  = Append(DIDs[d].Document.Credentials, c)
             /\ c.Subject = d
             /\ c.CommitmentID = c.Claims.ageCommitment
             /\ c.CommitmentID
                  = SprintfHex(AgeCommitmentBytes(last'.age,
                                                  last'.outSalt[1]))
             /\ DIDs'[d].ID = DIDs[d].ID
             /\ DIDs'[d].PublicKey = DIDs[d].PublicKey
             /\ DIDs'[d].Document.ID = DIDs[d].Document.ID
             /\ DIDs'[d].Document.Controller = DIDs[d].Document.Controller
             /\ DIDs'[d].Document.Authentication
                  = DIDs[d].Document.Authentication
             /\ \A k \in DOMAIN DIDs \ {d} : DIDs'[k] = DIDs[k]]_vars

\* C23 witness: a credential was issued to a registered DID whose document
\* already held one
C23_Witness ==
  /\ last.op = "IssueAgeCredential" /\ last.err = ""
  /\ last.didID \in DOMAIN issuedSecret
  /\ Len(DIDs[last.didID].Document.Credentials) = 2
  /\ DIDs[last.didID].Document.Credentials[2] = last.outCredential[1]

\* the public key the secret derives
DerivedKey(privateKey) == PublicKeyAssign(PubKeyBytes(SeedOf(privateKey)))

SignerMessage(challenge) == MimcWrite(<<>>, challenge)

\* the message the circuit hashes: the one element assigned to Message
ProverMessage(challenge) == <<SetBytes(challenge)>>

\* C25: signer and prover map the challenge to the message by one
\* convention: for every challenge, also one longer than a field element,
\* the signer's message is the one scalar assigned to the witness, and the
\* witness AuthenticateDID builds with the DID's own secret is satisfiable
C25_OneMessageConvention ==
  (/\ last.op = "AuthenticateDID" /\ last.didID \in DOMAIN issuedSecret
   /\ last.privateKey = issuedSecret[last.didID])
    => /\ ~SignerMessage(last.challenge).err
       /\ SignerMessage(last.challenge).data = ProverMessage(last.challenge)
       /\ last.err # ErrProve

(***************************************************************************)
(* The login page: one action per event handler and per answer of an      *)
(* awaited request.  A button that is not rendered, or is disabled while   *)
(* loading, cannot be clicked.  The server's answers are arbitrary.        *)
(***************************************************************************)
service == <<DIDs, last, held, issuedSecret, threads, crashed, accepted, keys>>

LoginMethods == {"password", "did", "qr"}

\* the pairs POST /did/authenticate can answer with, hex encoded
AuthResults ==
  {[proof |-> "0a", signature |-> "1a"], [proof |-> "0b", signature |-> "1b"]}

\* DIDLoginData submitted by loginWithDID, with where it was submitted from
Submitted(from, p, pair) ==
  <<[from |-> from, didStep |-> p.didStep, loginMethod |-> p.loginMethod,
     proof |-> pair.proof, signature |-> pair.signature]>>

\* faulty variant: Start Over keeping the pair
StartOverKeepingPair(p) == [p EXCEPT !.didStep = "input"]

\* onClick of Start Over: setDidStep('input'); setDidAuthData(null)
StartOverClicked(p) == [p EXCEPT !.didStep = "input", !.didAuthData = <<>>]

\* Tabs onValueChange, and the effect that clears qrData off the QR tab
SetLoginMethod ==
  /\ ~page.navigated
  /\ \E v \in LoginMethods \ {page.loginMethod} :
       page' = [page EXCEPT !.loginMethod = v,
                            !.qrData = IF v # "qr" THEN FALSE ELSE @]
  /\ UNCHANGED service

\* handleDidChange: the DID form filled in, or emptied
HandleDidChange ==
  /\ ~page.navigated
  /\ page.loginMethod = "did" /\ page.didStep = "input"
  /\ page' = [page EXCEPT !.filled = ~@]
  /\ UNCHANGED service

HandleDidAuthenticate ==
  /\ ~page.navigated
  /\ page.loginMethod = "did" /\ page.didStep = "input" /\ ~page.loading
  /\ page' = IF ~page.filled
               THEN [page EXCEPT !.error = "All DID fields are required"]
               ELSE [page EXCEPT !.error = "", !.loading = TRUE,
                                 !.pending = "authenticateDID"]
  /\ UNCHANGED service

\* authenticateDID answered: the pair kept and the step set to verify, or
\* the error shown
AuthenticateDIDSettled ==
  /\ ~page.navigated
  /\ page.pending = "authenticateDID"
  /\ \/ \E authResult \in AuthResults :
          page' = [page EXCEPT !.didAuthData = <<authResult>>,
                               !.didStep = "verify", !.loading = FALSE,
                               !.pending = ""]
     \/ page' = [page EXCEPT !.error = "DID authentication failed",
                             !.loading = FALSE, !.pending = ""]
  /\ UNCHANGED service

\* handleSubmit from the password form or from Sign in with DID
HandleSubmit ==
  /\ ~page.navigated
  /\ ~page.loading
  /\ \/ /\ page.loginMethod = "password"
        /\ page' = [page EXCEPT !.error = "", !.loading = TRUE,
                                !.pending = "login"]
     \/ /\ page.loginMethod = "did" /\ page.didStep = "verify"
        /\ page.didAuthData # <<>>
        /\ page' = [page EXCEPT
                      !.error = "", !.loading = TRUE,
                      !.pending = "loginWithDID",
                      !.sent = Submitted("handleSubmit", page,
                                         page.didAuthData[1])]
  /\ UNCHANGED service

\* login or loginWithDID answered: the router leaves the page, or the error
\* is shown
LoginSettled ==
  /\ ~page.navigated
  /\ page.pending \in {"login", "loginWithDID"}
  /\ \/ page' = [page EXCEPT !.navigated = TRUE, !.loading = FALSE,
                             !.pending = ""]
     \/ page' = [page EXCEPT !.error = "Login failed", !.loading = FALSE,
                             !.pending = ""]
  /\ UNCHANGED service

StartOver ==
  /\ ~page.navigated
  /\ page.loginMethod = "did" /\ page.didStep = "verify"
  /\ page.didAuthData # <<>>
  /\ page' = StartOverClicked(page)
  /\ UNCHANGED service

SetupQRAuthentication ==
  /\ ~page.navigated
  /\ page.loginMethod = "qr" /\ ~page.loading /\ ~page.qrData
  /\ page' = [page EXCEPT !.loading = TRUE,
                          !.pending = "generateQRChallenge"]
  /\ UNCHANGED service

\* generateQRChallenge answered: the code shown and polling started, or the
\* error shown
QRChallengeSettled ==
  /\ ~page.navigated
  /\ page.pending = "generateQRChallenge"
  /\ \/ page' = [page EXCEPT !.qrData = TRUE, !.polling = TRUE,
                             !.loading = FALSE, !.pending = ""]
     \/ page' = [page EXCEPT !.error = "Failed to generate QR code",
                             !.loading = FALSE, !.pending = ""]
  /\ UNCHANGED service

\* a tick of the polling interval whose answer is authenticated: the
\* interval is cleared and loginWithDID submitted with empty proof and
\* signature; a tick that fails clears the interval and shows the error
PollTick ==
  /\ ~page.navigated
  /\ page.polling /\ ~page.qrLogin
  /\ \/ page' = [page EXCEPT !.polling = FALSE, !.qrLogin = TRUE,
                             !.sent = Submitted("startPolling", page, NoPair)]
     \/ page' = [page EXCEPT !.polling = FALSE,
                             !.error = "QR authentication failed"]
  /\ UNCHANGED service

\* loginWithDID of the polling interval answered
QRLoginSettled ==
  /\ ~page.navigated
  /\ page.qrLogin
  /\ \/ page' = [page EXCEPT !.navigated = TRUE, !.qrLogin = FALSE]
     \/ page' = [page EXCEPT !.error = "QR authentication failed",
                             !.qrLogin = FALSE]
  /\ UNCHANGED service

NextLogin ==
  \/ SetLoginMethod
  \/ HandleDidChange
  \/ HandleDidAuthenticate
  \/ AuthenticateDIDSettled
  \/ HandleSubmit
  \/ LoginSettled
  \/ StartOver
  \/ SetupQRAuthentication
  \/ QRChallengeSettled
  \/ PollTick
  \/ QRLoginSettled

SpecLogin == Init /\ [][NextLogin]_vars

\* the pair the page holds is one authenticateDID returned
HoldsPair == page.didAuthData # <<>> /\ page.didAuthData[1] \in AuthResults

\* C26 as stated: didStep = 'verify' implies a pair returned by
\* authenticateDID is held, loginWithDID is submitted only in the verify
\* step with that pair, and Start Over returns to 'input' and discards the
\* pair
C26_LoginOnlyFromVerifyStep ==
  /\ [](page.didStep = "verify" => HoldsPair)
  /\ [][/\ page'.sent # page.sent
             => /\ page.didStep = "verify" /\ HoldsPair
                /\ page'.sent[1].proof = page.didAuthData[1].proof
                /\ page'.sent[1].signature = page.didAuthData[1].signature
        /\ (page.didStep = "verify" /\ page'.didStep # "verify")
             => (page'.didStep = "input" /\ page'.didAuthData = <<>>)]_vars

\* C26 for the DID key tab: the same, for the loginWithDID requests that
\* handleSubmit submits (the QR tab submits its own, with no pair and in no
\* step)
C26_KeyLoginOnlyFromVerifyStep ==
  /\ [](page.didStep = "verify" => HoldsPair)
  /\ [][/\ (page'.sent # page.sent /\ page'.sent[1].from = "handleSubmit")
             => /\ page.loginMethod = "did"
                /\ page.didStep = "verify" /\ HoldsPair
                /\ page'.sent[1].proof = page.didAuthData[1].proof
                /\ page'.sent[1].signature = page.didAuthData[1].signature
        /\ (page.didStep = "verify" /\ page'.didStep # "verify")
             => (page'.didStep = "input" /\ page'.didAuthData = <<>>)]_vars

\* C26 witness: handleSubmit submitted loginWithDID from the verify step
\* with the pair held
C26_Witness ==
  /\ page.sent # <<>> /\ page.sent[1].from = "handleSubmit"
  /\ page.pending = "loginWithDID"
  /\ page.didStep = "verify" /\ HoldsPair

\* C27: two IssueAgeCredential calls running concurrently for the same
\* registered DID lose no update: the process does not stop, and after both
\* returned the DID's document contains both issued credentials
C27_ConcurrentIssueKeepsBoth ==
  \A t, u \in Threads :
    (/\ t # u
     /\ threads[t].op = "IssueAgeCredential"
     /\ threads[u].op = "IssueAgeCredential"
     /\ threads[t].didID = threads[u].didID
     /\ threads[t].credential # threads[u].credential
     /\ threads[t].did.PublicKey.assigned
     /\ threads[u].did.PublicKey.assigned)
      => /\ ~crashed
         /\ (threads[t].pc = "done" /\ threads[u].pc = "done")
              => \A c \in {threads[t].credential[1], threads[u].credential[1]} :
                   \E i \in 1..Len(DIDs[threads[t].didID].Document.Credentials) :
                     DIDs[threads[t].didID].Document.Credentials[i] = c

\* the credential issued by the call in last is the one its id selects, so
\* CreateAgeProof and VerifyAgeProof, which look the credential up by id, use
\* the commitment of that issuance
SelectsIssued ==
  FindCredential(DIDs[last.didID], last.outCredential[1].ID)
    = last.outCredential

\* C28: after any sequence of IssueAgeCredential calls on one DID the
\* credential ids within its document are pairwise distinct, and the
\* credential of the n-th issuance is the one selected by its id
C28_CredentialIdsDistinct ==
  /\ \A d \in DOMAIN DIDs :
       \A i, j \in 1..Len(DIDs[d].Document.Credentials) :
         i # j => DIDs[d].Document.Credentials[i].ID
                    # DIDs[d].Document.Credentials[j].ID
  /\ (/\ last.op = "IssueAgeCredential" /\ last.err = ""
      /\ last.didID \in DOMAIN DIDs)
       => SelectsIssued

(***************************************************************************)
(* The private key on the wire: POST /api/did/create answers with the hex  *)
(* of the padded secret, POST /api/did/authenticate parses the hex it is   *)
(* sent with big.Int.SetString(s, 16) and hands the number to              *)
(* AuthenticateDID, which pads its bytes again.  A scalar of the model is  *)
(* below 2^31, so each 32-byte encoding starts with zero bytes.            *)
(***************************************************************************)
WireSecrets == {0, 1, 4660, 16777219}

WireDOBInputs == {[ok |-> TRUE, dob |-> 1], [ok |-> FALSE, dob |-> 0]}

WireIDs ==
  {DIDId(PubKeyBytes(SeedOf(k))) : k \in WireSecrets} \cup {UnknownID}

\* the private_key strings a client sends: a string a create response can
\* carry, the same digits in upper case or without padding, a signed number,
\* and strings that are no number
PrivateKeyStrings ==
  {PrivateKeyHex(k) : k \in WireSecrets} \cup {"1234", "-1", "", "xyz"}

UpperHexDigits == <<"0", "1", "2", "3", "4", "5", "6", "7",
                    "8", "9", "A", "B", "C", "D", "E", "F">>

\* the value of one digit character, -1 for a character that is no digit
DigitValue(ch) ==
  IF \E i \in 1..16 : HexDigits[i] = ch
    THEN (CHOOSE i \in 1..16 : HexDigits[i] = ch) - 1
  ELSE IF \E i \in 1..16 : UpperHexDigits[i] = ch
    THEN (CHOOSE i \in 1..16 : UpperHexDigits[i] = ch) - 1
  ELSE -1

RECURSIVE Pow(_, _)
Pow(base, k) == IF k = 0 THEN 1 ELSE base * Pow(base, k - 1)

\* the digits of str read in the base, most significant first: the value of
\* the left half times base^(length of the right half) plus the value of the
\* right half (the halving keeps the evaluation shallow on 64 digits)
RECURSIVE ParseDigits(_, _)
ParseDigits(str, base) ==
  IF Len(str) = 0 THEN [success |-> TRUE, n |-> 0]
  ELSE IF Len(str) = 1
    THEN LET d == DigitValue(str)
         IN IF d < 0 \/ d >= base THEN [success |-> FALSE, n |-> 0]
            ELSE [success |-> TRUE, n |-> d]
  ELSE
    LET half == Len(str) \div 2
        left == ParseDigits(SubSeq(str, 1, half), base)
        right == ParseDigits(SubSeq(str, half + 1, Len(str)), base)
    IN IF ~left.success \/ ~right.success THEN [success |-> FALSE, n |-> 0]
       ELSE IF left.n = 0 THEN right
       ELSE [success |-> TRUE,
             n |-> left.n * Pow(base, Len(str) - half) + right.n]

\* faulty variant: the string is read as a decimal number
SetStringDecimal(str, base) ==
  IF Len(str) = 0 THEN [success |-> FALSE, n |-> 0]
  ELSE ParseDigits(str, 10)

\* big.Int.SetString(s, base) for base 16: an optional sign, then at least
\* one digit, and nothing else
SetString(str, base) ==
  LET signed == Len(str) > 0 /\ Head(str) \in {"+", "-"}
      digits == IF signed THEN Tail(str) ELSE str
      parsed == ParseDigits(digits, base)
  IN IF Len(digits) = 0 \/ ~parsed.success
       THEN [success |-> FALSE, n |-> 0]
     ELSE IF signed /\ Head(str) = "-"
       THEN [success |-> TRUE, n |-> 0 - parsed.n]
     ELSE parsed

ErrKeyFormat == "Invalid private key format"

\* AuthResponse{Proof: hex(proof), Signature: hex(signature)}
AuthResponse(proof, signature) ==
  [Proof |-> [hexOf |-> proof], Signature |-> [hexOf |-> signature]]

CreateWire == CreateRequestWith(WireDOBInputs, WireSecrets)

AuthenticateHandler ==
  /\ last = Blank
  /\ \E didID \in WireIDs, str \in PrivateKeyStrings,
        challenge \in Challenges :
       LET privateKey == SetString(str, 16)
           sent == [Blank EXCEPT !.op = "POST /api/did/authenticate",
                                 !.didID = didID, !.request = <<str>>,
                                 !.challenge = challenge]
       IN IF ~privateKey.success
            THEN /\ last' = [sent EXCEPT !.err = ErrKeyFormat]
                 /\ UNCHANGED <<DIDs, held, issuedSecret, others, keys>>
          ELSE
            LET privKeyBytes == BigIntBytes(privateKey.n)
                c == AuthenticateDIDCall(DIDs, didID, privKeyBytes,
                                         challenge)
            IN /\ last' = [sent EXCEPT
                             !.privateKey = privateKey.n,
                             !.privKeyBytes = privKeyBytes,
                             !.panicked = c.panicked, !.err = c.r.err,
                             !.outProof = c.r.proof,
                             !.outSignature = c.r.signature,
                             !.work = c.r.work, !.log = c.log,
                             !.response =
                               IF ~c.panicked /\ c.r.err = ""
                                 THEN <<AuthResponse(c.r.proof,
                                                     c.r.signature)>>
                                 ELSE <<>>]
               /\ DIDs' = ReadDIDs(DIDs, didID)
               /\ keys' = ReadKeys(keys)
               /\ UNCHANGED <<held, issuedSecret, others>>

NextWire ==
  \/ CreateWire
  \/ AuthenticateHandler
  \/ Return

SpecWire == Init /\ [][NextWire]_vars

\* the request carries the string POST /api/did/create returned for the DID
SendsReturnedKey ==
  /\ last.op = "POST /api/did/authenticate"
  /\ last.didID \in DOMAIN issuedSecret
  /\ last.request = <<PrivateKeyHex(issuedSecret[last.didID])>>

\* C29: for every secret CreateDID returned, the 64 hex digits
\* POST /api/did/create answers with, parsed by POST /api/did/authenticate,
\* give back the same number, the same 32-byte seed and so the key pair
\* registered for the DID
C29_WireRoundTrip ==
  SendsReturnedKey
    => /\ last.err # ErrKeyFormat
       /\ ~last.panicked
       /\ last.privateKey = issuedSecret[last.didID]
       /\ SeedOf(SetBytes(last.privKeyBytes))
            = SeedOf(issuedSecret[last.didID])
       /\ Printf("AuthenticateDID private key: %x",
                 EddsaPrivateKeyBytes(SeedOf(issuedSecret[last.didID])))
            \in {last.log[i] : i \in 1..Len(last.log)}
       /\ DerivedKey(last.privateKey) = DIDs[last.didID].PublicKey

C29_Witness ==
  /\ SendsReturnedKey
  /\ issuedSecret[last.didID] = 16777219
  /\ last.err = ""
  /\ last.response # <<>>

(***************************************************************************)
(* LoginWithDID, the handler that turns a verified proof into a session    *)
(* token.  The users table is outside the service: the outcome of the      *)
(* SELECT ... WHERE did = $1 is an input of the handler, and so is the     *)
(* outcome of generateToken.  didService is set by InitDIDService before   *)
(* the handler is served.                                                  *)
(***************************************************************************)
\* a string that is not hex
NotHex == [notHex |-> "zz"]

\* hex.DecodeString
HexDecodeString(str) ==
  IF "hexOf" \in DOMAIN str THEN [err |-> FALSE, bytes |-> str.hexOf]
  ELSE [err |-> TRUE, bytes |-> <<>>]

\* QueryRow(...).Scan(...): a row whose did is the one asked for, no row,
\* or another error
QueryResults == {"row", "ErrNoRows", "error"}

ErrSignatureFormat == "Invalid signature format"
ErrProofFormat == "Invalid proof format"
ErrDIDVerification == "DID verification failed"
ErrDIDNotFound == "DID not found"
ErrInternal == "Internal server error"
ErrToken == "Failed to generate token"

\* http.Error(w, body, status)
HttpError(status, body, verified) ==
  [panicked |-> FALSE, status |-> status, body |-> body, token |-> <<>>,
   verified |-> verified]

\* the handler does not return: net/http recovers the panic and closes the
\* connection without a response
NoResponse ==
  [panicked |-> TRUE, status |-> 0, body |-> "", token |-> <<>>,
   verified |-> FALSE]

\* generateToken(user.ID) and AuthResponse{Token: token, User: user}
TokenResponse(didID) ==
  [panicked |-> FALSE, status |-> 200, body |-> "",
   token |-> <<[user |-> [DID |-> didID]]>>, verified |-> TRUE]

\* faulty variant: the result of VerifyAuthentication is not looked at
LoginWithDIDUnverified(reg, req, row, tokenFails) ==
  IF HexDecodeString(req.Signature).err
    THEN HttpError(400, ErrSignatureFormat, FALSE)
  ELSE IF HexDecodeString(req.Proof).err
    THEN HttpError(400, ErrProofFormat, FALSE)
  ELSE IF row = "ErrNoRows" THEN HttpError(401, ErrDIDNotFound, FALSE)
  ELSE IF row = "error" THEN HttpError(500, ErrInternal, FALSE)
  ELSE TokenResponse(req.DIDID)

LoginWithDID(reg, req, row, tokenFails) ==
  LET signature == HexDecodeString(req.Signature)
      proof == HexDecodeString(req.Proof)
  IN IF signature.err THEN HttpError(400, ErrSignatureFormat, FALSE)
     ELSE IF proof.err THEN HttpError(400, ErrProofFormat, FALSE)
     ELSE
       LET c == VerifyAuthenticationCall(reg, req.DIDID, proof.bytes,
                                         signature.bytes)
       IN IF c.panicked THEN NoResponse
          ELSE IF c.r.err # "" THEN HttpError(500, c.r.err, FALSE)
          ELSE IF ~c.r.valid THEN HttpError(401, ErrDIDVerification, FALSE)
          ELSE IF row = "ErrNoRows" THEN HttpError(401, ErrDIDNotFound, TRUE)
          ELSE IF row = "error" THEN HttpError(500, ErrInternal, TRUE)
          ELSE IF tokenFails THEN HttpError(500, ErrToken, TRUE)
          ELSE TokenResponse(req.DIDID)

\* the hex strings a client can send
HexInputs(buffers) == {[hexOf |-> b] : b \in buffers} \cup {NotHex}

LoginWithDIDRequest ==
  /\ last = Blank
  /\ \E didID \in AllIDs, proofHex \in HexInputs(ProofInputs),
        signatureHex \in HexInputs(SignatureInputs),
        row \in QueryResults, tokenFails \in BOOLEAN :
       LET req == [DIDID |-> didID, Signature |-> signatureHex,
                   Proof |-> proofHex]
           resp == LoginWithDID(DIDs, req, row, tokenFails)
           decoded == /\ ~HexDecodeString(signatureHex).err
                      /\ ~HexDecodeString(proofHex).err
       IN /\ last' = [Blank EXCEPT !.op = "LoginWithDID", !.didID = didID,
                                   !.request = <<req>>, !.query = row,
                                   !.panicked = resp.panicked,
                                   !.valid = resp.verified,
                                   !.err = resp.body,
                                   !.response = <<resp>>]
          /\ DIDs' = IF decoded THEN ReadDIDs(DIDs, didID) ELSE DIDs
          /\ keys' = IF decoded THEN ReadKeys(keys) ELSE keys
          /\ UNCHANGED <<held, issuedSecret, others>>

NextToken ==
  \/ DoCreateDID
  \/ DoAuthenticateDID
  \/ LoginWithDIDRequest
  \/ Return

SpecToken == Init /\ [][NextToken]_vars

\* what VerifyAuthentication answers on the decoded proof and signature of
\* the request in last
VerifiedRequest ==
  LET req == last.request[1]
      signature == HexDecodeString(req.Signature)
      proof == HexDecodeString(req.Proof)
  IN [decoded |-> ~signature.err /\ ~proof.err,
      c |-> IF signature.err \/ proof.err THEN Panic(<<>>)
            ELSE VerifyAuthenticationCall(DIDs, req.DIDID, proof.bytes,
                                          signature.bytes)]

\* C30: LoginWithDID issues a session token only if VerifyAuthentication
\* on the request's DID, proof and signature returned true with no error
\* and the users table holds a row for that DID; on a decode error, a
\* verification error, a false result or a missing user the response has an
\* error status and no token
C30_TokenOnlyIfVerified ==
  last.op = "LoginWithDID"
    => LET resp == last.response[1]
           v == VerifiedRequest
       IN /\ resp.token # <<>>
               => /\ resp.status = 200
                  /\ v.decoded /\ ~v.c.panicked
                  /\ v.c.r.err = "" /\ v.c.r.valid
                  /\ last.query = "row"
                  /\ resp.token[1].user.DID = last.didID
          /\ ~v.decoded => resp.status = 400 /\ resp.token = <<>>
          /\ (v.decoded /\ ~v.c.panicked /\ v.c.r.err # "")
               => resp.status = 500 /\ resp.token = <<>>
          /\ (v.decoded /\ ~v.c.panicked /\ v.c.r.err = "" /\ ~v.c.r.valid)
               => resp.status = 401 /\ resp.token = <<>>
          /\ (v.decoded /\ ~v.c.panicked /\ v.c.r.err = "" /\ v.c.r.valid
                /\ last.query = "ErrNoRows")
               => resp.status = 401 /\ resp.token = <<>>

C30_Witness ==
  /\ last.op = "LoginWithDID"
  /\ last.response[1].token # <<>>
  /\ last.didID \in DOMAIN issuedSecret

====
